---- MODULE Spec2Model ----
(***************************************************************************)
(* AI voice detection API: the /predict request path (src/app/api.py),     *)
(* the inference pipeline (src/model/inference.py), audio acquisition and  *)
(* decoding (src/utils/audio_utils.py) and URL validation                  *)
(* (src/utils/validation.py), as a state machine.                          *)
(*                                                                         *)
(* Spec is that request path.  SpecClassifier is a program that trains,    *)
(* saves, loads and queries VoiceClassifier objects                        *)
(* (src/model/classifier.py); SpecConcurrent is predict called side by     *)
(* side on one engine.                                                     *)
(*                                                                         *)
(* Strings the code inspects character by character (URLs, paths) are      *)
(* sequences of one-character strings.  Confidences are integers counting  *)
(* units of 0.00001, so 0.85 is 85000 and 1.0 is 100000.  Payload sizes    *)
(* count blocks of bytes; MAX_FILE_SIZE is the 50 MB cap in those blocks.  *)
(***************************************************************************)
EXTENDS Integers, Sequences, FiniteSets, TLC

(***************************************************************************)
(* Bounds of the model.                                                    *)
(***************************************************************************)
\* AudioProcessor.MAX_FILE_SIZE, scaled to payload blocks
MAX_FILE_SIZE == 3
\* largest chunk iter_content hands over, in payload blocks
MaxChunk == 2
\* number of calls (requests or direct predict calls) one behaviour handles
MaxCalls == 2
\* largest value of the clock time.time() reads
MaxClock == 1
\* the blocks of the body every remote resource of side-by-side calls returns
RemoteBlocks == 2

(***************************************************************************)
(* Strings.                                                                *)
(***************************************************************************)
UpperLetters ==
    <<"A", "B", "C", "D", "E", "F", "G", "H", "I", "J", "K", "L", "M",
      "N", "O", "P", "Q", "R", "S", "T", "U", "V", "W", "X", "Y", "Z">>
LowerLetters ==
    <<"a", "b", "c", "d", "e", "f", "g", "h", "i", "j", "k", "l", "m",
      "n", "o", "p", "q", "r", "s", "t", "u", "v", "w", "x", "y", "z">>
Digits ==
    {"0", "1", "2", "3", "4", "5", "6", "7", "8", "9"}
Range(f) ==
    {f[i] : i \in DOMAIN f}
\* str.lower() on one character
LowerChar(c) ==
    IF \E i \in 1..26 : UpperLetters[i] = c
    THEN LowerLetters[CHOOSE i \in 1..26 : UpperLetters[i] = c]
    ELSE c
\* str.lower()
Lower(s) ==
    [i \in 1..Len(s) |-> LowerChar(s[i])]
\* str.startswith(p)
StartsWith(s, p) ==
    Len(s) >= Len(p) /\ SubSeq(s, 1, Len(p)) = p
\* p in s
Contains(s, p) ==
    \E i \in 1..(Len(s) - Len(p) + 1) : SubSeq(s, i, i + Len(p) - 1) = p
\* 1-based index of the first character of s at or after position from that
\* lies in cs, or 0 when there is none (str.find returning -1)
FindFrom(s, cs, from) ==
    IF \E i \in from..Len(s) : s[i] \in cs
    THEN CHOOSE i \in from..Len(s) :
             s[i] \in cs /\ \A j \in from..(i - 1) : s[j] \notin cs
    ELSE 0

(***************************************************************************)
(* The URLs requests carry.                                                *)
(***************************************************************************)
\* ""
U_empty ==
    <<>>
\* "not-a-valid-url"
U_noscheme ==
    <<"n", "o", "t", "-", "a", "-", "v", "a", "l", "i", "d", "-", "u", "r", "l">>
\* "ftp://a.io/x"
U_ftp ==
    <<"f", "t", "p", ":", "/", "/", "a", ".", "i", "o", "/", "x">>
\* "file:///x"
U_file ==
    <<"f", "i", "l", "e", ":", "/", "/", "/", "x">>
\* "http:///x"
U_nohost ==
    <<"h", "t", "t", "p", ":", "/", "/", "/", "x">>
\* "http://[a/x"
U_badv6 ==
    <<"h", "t", "t", "p", ":", "/", "/", "[", "a", "/", "x">>
\* "http://a.io/x"
U_pub ==
    <<"h", "t", "t", "p", ":", "/", "/", "a", ".", "i", "o", "/", "x">>
\* "https://a.io/x"
U_pubs ==
    <<"h", "t", "t", "p", "s", ":", "/", "/", "a", ".", "i", "o", "/", "x">>
\* "HTTP://a.io/x"
U_upper ==
    <<"H", "T", "T", "P", ":", "/", "/", "a", ".", "i", "o", "/", "x">>
\* "http://127.0.0.1/x"
U_lo1 ==
    <<"h", "t", "t", "p", ":", "/", "/", "1", "2", "7", ".", "0", ".", "0", ".", "1", "/", "x">>
\* "http://127.0.0.2/x"
U_lo2 ==
    <<"h", "t", "t", "p", ":", "/", "/", "1", "2", "7", ".", "0", ".", "0", ".", "2", "/", "x">>
\* "http://LocalHost/x"
U_lh ==
    <<"h", "t", "t", "p", ":", "/", "/", "L", "o", "c", "a", "l", "H", "o", "s", "t", "/", "x">>
\* "http://0.0.0.0/x"
U_zero ==
    <<"h", "t", "t", "p", ":", "/", "/", "0", ".", "0", ".", "0", ".", "0", "/", "x">>
\* "http://10.0.0.1/x"
U_p10 ==
    <<"h", "t", "t", "p", ":", "/", "/", "1", "0", ".", "0", ".", "0", ".", "1", "/", "x">>
\* "http://172.16.0.1/x"
U_p172a ==
    <<"h", "t", "t", "p", ":", "/", "/", "1", "7", "2", ".", "1", "6", ".", "0", ".", "1", "/", "x">>
\* "http://172.17.0.1/x"
U_p172b ==
    <<"h", "t", "t", "p", ":", "/", "/", "1", "7", "2", ".", "1", "7", ".", "0", ".", "1", "/", "x">>
\* "http://192.168.1.1/x"
U_p192 ==
    <<"h", "t", "t", "p", ":", "/", "/", "1", "9", "2", ".", "1", "6", "8", ".", "1", ".", "1", "/", "x">>
\* "http://a.io/v10.mp3"
U_path10 ==
    <<"h", "t", "t", "p", ":", "/", "/", "a", ".", "i", "o", "/", "v", "1", "0", ".", "m", "p", "3">>
\* two URLs whose file names carry language markers
U_hindi ==
    <<"h", "t", "t", "p", ":", "/", "/", "a", ".", "i", "o", "/", "h", "i", "n", "d", "i", ".", "m", "p", "3">>
U_english ==
    <<"h", "t", "t", "p", ":", "/", "/", "a", ".", "i", "o", "/", "e", "n", "g", "l", "i", "s", "h", ".", "m", "p", "3">>
URLs ==
    {U_empty, U_noscheme, U_ftp, U_file, U_nohost, U_badv6, U_pub, U_pubs, U_upper, U_lo1, U_lo2, U_lh, U_zero, U_p10, U_p172a, U_p172b, U_p192, U_path10}
P_http == <<"h", "t", "t", "p", ":", "/", "/">>
P_https == <<"h", "t", "t", "p", "s", ":", "/", "/">>
dangerous_patterns ==
    <<<<"l", "o", "c", "a", "l", "h", "o", "s", "t">>,
      <<"1", "2", "7", ".", "0", ".", "0", ".", "1">>,
      <<"0", ".", "0", ".", "0", ".", "0">>,
      <<"1", "9", "2", ".", "1", "6", "8", ".">>,
      <<"1", "0", ".">>,
      <<"1", "7", "2", ".", "1", "6", ".">>,
      <<"f", "i", "l", "e", ":", "/", "/">>,
      <<"f", "t", "p", ":", "/", "/">>>>

(***************************************************************************)
(* urllib.parse.urlparse, as far as validate_url reads its result: the     *)
(* scheme (lower-cased), the netloc, and the ValueError it raises for an   *)
(* unbalanced IPv6 bracket.                                                *)
(***************************************************************************)
scheme_chars ==
    Range(UpperLetters) \cup Range(LowerLetters) \cup Digits \cup {"+", "-", "."}
urlparse(url) ==
    LET i == FindFrom(url, {":"}, 1)
        hasScheme == /\ i > 1
                     /\ url[1] \in Range(UpperLetters) \cup Range(LowerLetters)
                     /\ \A k \in 1..(i - 1) : url[k] \in scheme_chars
        scheme == IF hasScheme THEN Lower(SubSeq(url, 1, i - 1)) ELSE <<>>
        rest == IF hasScheme THEN SubSeq(url, i + 1, Len(url)) ELSE url
        hasNetloc == StartsWith(rest, <<"/", "/">>)
        d == FindFrom(rest, {"/", "?", "#"}, 3)
        netloc == IF ~hasNetloc THEN <<>>
                  ELSE IF d = 0 THEN SubSeq(rest, 3, Len(rest))
                  ELSE SubSeq(rest, 3, d - 1)
    IN  [scheme |-> scheme,
         netloc |-> netloc,
         raises |-> ("[" \in Range(netloc)) # ("]" \in Range(netloc))]

(***************************************************************************)
(* InputValidator.validate_url: "ok", or the ValidationError it raises.    *)
(***************************************************************************)
HitsDangerousPattern(url) ==
    LET url_lower == Lower(url)
    IN  \E k \in DOMAIN dangerous_patterns : Contains(url_lower, dangerous_patterns[k])
validate_url(url) ==
    IF url = <<>> THEN "URL must be a non-empty string"
    ELSE LET result == urlparse(url)
         IN  IF result.raises THEN "Invalid URL: Invalid IPv6 URL"
             ELSE IF result.scheme = <<>> \/ result.netloc = <<>>
                  THEN "Invalid URL: Invalid URL format"
             ELSE IF result.scheme \notin {<<"h", "t", "t", "p">>, <<"h", "t", "t", "p", "s">>}
                  THEN "Invalid URL: URL must use HTTP or HTTPS protocol"
             ELSE IF HitsDangerousPattern(url)
                  THEN "Security: Cannot access local/internal resources"
             ELSE "ok"

\* a mutant: any URL with a scheme separator passes
download_scheme_ok_Loose(url) ==
    Contains(url, <<":", "/", "/">>)
\* AudioProcessor.download_audio's first test: url.startswith(('http://', 'https://'))
download_scheme_ok(url) ==
    StartsWith(url, P_http) \/ StartsWith(url, P_https)

(***************************************************************************)
(* Classification, the safety override, the result and the explanation.    *)
(***************************************************************************)
\* VoiceClassifier.class_names, index 0 first
class_names ==
    <<"HUMAN", "AI_GENERATED">>
\* probabilities of the AI_GENERATED class the forest can report
ProbGrid ==
    {0, 50000, 50001, 64996, 65000, 84994, 84995, 84996, 85000, 85004, 85005, 100000}
\* VoiceClassifier.predict on a trained model whose forest gives class 1 the
\* probability pAI: the arg-max class (the first on a tie) and its probability
classifier_predict(pAI) ==
    LET probabilities == <<100000 - pAI, pAI>>
        prediction == IF probabilities[2] > probabilities[1] THEN 1 ELSE 0
    IN  [label |-> class_names[prediction + 1],
         confidence |-> probabilities[prediction + 1]]
\* a mutant: the comparison includes the threshold
safety_override_Inclusive(label, confidence) ==
    IF label = "AI_GENERATED" /\ confidence <= 85000 THEN "HUMAN" ELSE label
\* InferenceEngine.predict, the safety threshold
safety_override(label, confidence) ==
    IF label = "AI_GENERATED" /\ confidence < 85000 THEN "HUMAN" ELSE label
\* round(confidence, 4): to the nearest 0.0001, a tie to the even neighbour
round4(confidence) ==
    LET q == confidence \div 10
        r == confidence % 10
    IN  IF r < 5 THEN 10 * q
        ELSE IF r > 5 THEN 10 * (q + 1)
        ELSE IF q % 2 = 0 THEN 10 * q ELSE 10 * (q + 1)
\* a mutant: a flipped label reports the probability of the class it names
result_confidence_Complement(raw_label, label, confidence) ==
    IF raw_label # label THEN round4(100000 - confidence) ELSE round4(confidence)
\* the 'confidence' entry of the dict InferenceEngine.predict returns
result_confidence(raw_label, label, confidence) ==
    round4(confidence)
\* a mutant: the high tier starts at the threshold
generate_explanation_InclusiveHigh(label, confidence) ==
    IF label = "AI_GENERATED"
    THEN IF confidence >= 85000 THEN "AI_HIGH"
         ELSE IF confidence > 65000 THEN "AI_MODERATE"
         ELSE "AI_LOW"
    ELSE IF confidence >= 85000 THEN "HUMAN_HIGH"
         ELSE IF confidence > 65000 THEN "HUMAN_MODERATE"
         ELSE "HUMAN_LOW"
\* InferenceEngine._generate_explanation, each template by a tag
generate_explanation(label, confidence) ==
    IF label = "AI_GENERATED"
    THEN IF confidence > 85000 THEN "AI_HIGH"
         ELSE IF confidence > 65000 THEN "AI_MODERATE"
         ELSE "AI_LOW"
    ELSE IF confidence > 85000 THEN "HUMAN_HIGH"
         ELSE IF confidence > 65000 THEN "HUMAN_MODERATE"
         ELSE "HUMAN_LOW"

(***************************************************************************)
(* Temp files.  AudioProcessor.temp_dir and the name download_audio makes: *)
(* audio_<md5 of url and time>.tmp.  The digest is taken as one-to-one in  *)
(* (url, time), so a path is that pair; its text has a hex digest.         *)
(***************************************************************************)
temp_dir ==
    <<"/", "t", "m", "p">>
HexDigits ==
    <<"0", "1", "2", "3", "4", "5", "6", "7", "8", "9", "a", "b", "c", "d", "e", "f">>
make_temp_path(url, t) ==
    [url |-> url, t |-> t]
\* the directories tempfile.gettempdir() can answer with: the default, and
\* two that an environment's TMPDIR names
T_both ==
    <<"/", "d", "a", "t", "a", "/", "E", "N", "_", "h", "i", "n">>
T_eng ==
    <<"/", "v", "a", "r", "/", "E", "n", "g">>
TempDirs ==
    {temp_dir, T_both, T_eng}
\* a mutant: the temp file keeps the URL's text in its name
temp_file_text_UrlName(dir, p) ==
    dir \o <<"/", "a", "u", "d", "i", "o", "_">> \o p.url \o <<".", "t", "m", "p">>
\* os.path.join(self.temp_dir, f"audio_{url_hash}.tmp"), as text
temp_file_text(dir, p) ==
    dir \o <<"/", "a", "u", "d", "i", "o", "_">>
        \o <<HexDigits[((Len(p.url) + 7 * p.t) % 16) + 1],
             HexDigits[((3 * Len(p.url) + p.t) % 16) + 1]>>
        \o <<".", "t", "m", "p">>
\* the same with the default directory
path_text(p) ==
    temp_file_text(temp_dir, p)
\* a mutant: the English markers are looked for before the Hindi ones
detect_language_EnglishFirst(audio_path) ==
    LET path_lower == Lower(audio_path)
        any(indicators) == \E m \in indicators : Contains(path_lower, m)
    IN  IF any({<<"e", "n", "g", "l", "i", "s", "h">>, <<"e", "n", "_">>, <<"_", "e", "n">>, <<"e", "n", "g">>})
        THEN "English"
        ELSE IF any({<<"h", "i", "n", "d", "i">>, <<"h", "i", "_">>, <<"_", "h", "i">>, <<"h", "i", "n">>})
        THEN "Hindi"
        ELSE "Unknown"
\* LanguageDetector.detect_language
detect_language(audio_path) ==
    LET path_lower == Lower(audio_path)
        any(indicators) == \E m \in indicators : Contains(path_lower, m)
    IN  IF any({<<"h", "i", "n", "d", "i">>, <<"h", "i", "_">>, <<"_", "h", "i">>, <<"h", "i", "n">>})
        THEN "Hindi"
        ELSE IF any({<<"e", "n", "g", "l", "i", "s", "h">>, <<"e", "n", "_">>, <<"_", "e", "n">>, <<"e", "n", "g">>})
        THEN "English"
        ELSE "Unknown"
\* os.path.exists; the scratch directory is the set of paths at which a file exists
exists(fs, p) ==
    p \in fs
\* os.remove that succeeds: the file is gone
removed(fs, p) ==
    fs \ {p}
\* open(p, 'wb'): the file exists (and is empty)
opened(fs, p) ==
    fs \cup {p}
\* a mutant: the cap is tested only after the chunk is on disk
chunk_over_cap_Late(total_size, k) ==
    total_size - k > MAX_FILE_SIZE
\* download_audio's size test, total_size being the count with the chunk added
chunk_over_cap(total_size, k) ==
    total_size > MAX_FILE_SIZE
\* decoded sample counts at 16 kHz librosa.load can return (60 s at most)
SampleCounts ==
    {0, 3200, 7999, 8000, 960000}
TARGET_SAMPLE_RATE ==
    16000
\* a mutant: audio of exactly half a second is refused too
validate_audio_Strict(n, sr) ==
    IF n = 0 THEN "Audio file is empty or corrupted"
    ELSE IF 2 * n <= sr THEN "Audio too short: minimum 0.5 seconds required"
    ELSE "ok"
\* load_and_preprocess's validation of the decoded audio: "ok" or its error
validate_audio(n, sr) ==
    IF n = 0 THEN "Audio file is empty or corrupted"
    ELSE IF 2 * n < sr THEN "Audio too short: minimum 0.5 seconds required"
    ELSE "ok"

(***************************************************************************)
(* Sample values.  A sample is a fraction num/den with den > 0; a decoded  *)
(* waveform is shown by a short sequence of its samples, one for each run  *)
(* of equal samples, its length in samples being counted apart.            *)
(***************************************************************************)
\* what librosa.load can decode: silence, a signal whose largest sample is
\* negative (1/2, -1), and one over full scale (3/2, -1/2)
Waveforms ==
    {<<[num |-> 0, den |-> 2], [num |-> 0, den |-> 2]>>,
     <<[num |-> 1, den |-> 2], [num |-> -2, den |-> 2]>>,
     <<[num |-> 3, den |-> 2], [num |-> -1, den |-> 2]>>}
\* np.abs on one sample
abs(x) ==
    [num |-> IF x.num < 0 THEN -x.num ELSE x.num, den |-> x.den]
\* x <= y for samples
leq(x, y) ==
    x.num * y.den <= y.num * x.den
\* ndarray.max(): the largest sample of a non-empty array
max(audio) ==
    CHOOSE x \in Range(audio) : \A y \in Range(audio) : leq(y, x)
\* audio / max_val on one sample, max_val > 0
divide(x, max_val) ==
    [num |-> x.num * max_val.den, den |-> x.den * max_val.num]
\* a mutant: the largest sample is taken without np.abs
normalize_audio_SignedMax(audio) ==
    LET max_val == max(audio)
    IN  IF max_val.num > 0
        THEN [i \in DOMAIN audio |-> divide(audio[i], max_val)]
        ELSE audio
\* AudioProcessor._normalize_audio
normalize_audio(audio) ==
    LET max_val == max([i \in DOMAIN audio |-> abs(audio[i])])
    IN  IF max_val.num > 0
        THEN [i \in DOMAIN audio |-> divide(audio[i], max_val)]
        ELSE audio

(***************************************************************************)
(* Deleting temp files.  os.remove can fail (the ok argument is the        *)
(* environment's answer); AudioProcessor.cleanup swallows the failure.     *)
(***************************************************************************)
\* Python's None; a value x that is present is <<x>>
None ==
    <<>>
\* AudioProcessor.cleanup
cleanup(fs, file_path, ok) ==
    IF exists(fs, file_path) /\ ok THEN removed(fs, file_path) ELSE fs
\* process_audio_from_url, except clause: "if temp_path: self.cleanup(temp_path)"
process_except(fs, temp_path, ok) ==
    IF temp_path # None THEN cleanup(fs, temp_path[1], ok) ELSE fs
\* a mutant: predict has no finally clause
predict_finally_NoCleanup(fs, temp_path, ok) ==
    fs
\* InferenceEngine.predict, finally clause: "if temp_path: self.audio_processor.cleanup(temp_path)"
predict_finally(fs, temp_path, ok) ==
    IF temp_path # None THEN cleanup(fs, temp_path[1], ok) ELSE fs

(***************************************************************************)
(* Loading a file: librosa.load as load_and_preprocess calls it at         *)
(* inference time and as extract_batch_features calls it at training time. *)
(***************************************************************************)
\* the audio files of a dataset: the samples the whole file holds at the
\* target rate (0.2 s, 0.5 s, 60 s, 100 s) and their values
AudioFiles ==
    [n : {3200, 8000, 960000, 1600000}, samples : Waveforms]
\* librosa.load(file_path, sr=sr, mono=True, duration=duration): the first
\* duration seconds of the file, or all of it when no duration is given
librosa_load(file, sr, duration) ==
    [n |-> IF duration # None /\ file.n > duration[1] * sr THEN duration[1] * sr ELSE file.n,
     samples |-> file.samples,
     sr |-> sr]
\* AudioProcessor.load_and_preprocess on a file: the waveform it returns, or
\* the AudioDownloadError it raises
load_and_preprocess(file) ==
    LET loaded == librosa_load(file, TARGET_SAMPLE_RATE, <<60>>)
    IN  IF validate_audio(loaded.n, loaded.sr) = "ok"
        THEN [raised |-> FALSE,
              audio |-> <<[loaded EXCEPT !.samples = normalize_audio(loaded.samples)]>>]
        ELSE [raised |-> TRUE, audio |-> None]
\* FeatureExtractor.extract_batch_features on one file, sr at its default:
\* the waveform it hands to extract_features
extract_batch_features(file) ==
    [raised |-> FALSE, audio |-> <<librosa_load(file, 16000, None)>>]

(***************************************************************************)
(* The except clauses of download_audio and load_and_preprocess: the       *)
(* exception that leaves the function for the exception e raised inside.   *)
(***************************************************************************)
RequestExceptions ==
    {"ConnectionError", "Timeout", "HTTPError", "ChunkedEncodingError"}
\* a mutant: only requests' exceptions are converted, the others propagate
download_except_RequestOnly(e) ==
    IF e \in RequestExceptions THEN "AudioDownloadError" ELSE e
\* download_audio: except requests.RequestException, except Exception
download_except(e) ==
    IF e \in RequestExceptions THEN "AudioDownloadError" ELSE "AudioDownloadError"
\* the message of the exception download_except(e) gives
download_except_msg(e, m) ==
    IF e \in RequestExceptions THEN <<"Download failed: ", m>>
    ELSE <<"Unexpected error during download: ", m>>
\* load_and_preprocess: except Exception
load_except(e) ==
    "AudioDownloadError"

(***************************************************************************)
(* The /predict handler's except clauses: the response for an exception.   *)
(***************************************************************************)
\* a mutant: the ValidationError clause is missing
handler_response_NoValidationClause(e) ==
    IF e = "AudioDownloadError" THEN [status |-> 400, error |-> "AudioDownloadError"]
    ELSE [status |-> 500, error |-> "InternalServerError"]
\* predict_voice: except ValidationError, except AudioDownloadError, except Exception
handler_response(e) ==
    IF e = "ValidationError" THEN [status |-> 400, error |-> "ValidationError"]
    ELSE IF e = "AudioDownloadError" THEN [status |-> 400, error |-> "AudioDownloadError"]
    ELSE [status |-> 500, error |-> "InternalServerError"]
\* get_inference_engine: the engine is returned (ok), or the HTTPException it raises
engine_dependency(engine) ==
    IF engine = None THEN [ok |-> FALSE, status |-> 503, error |-> "ModelNotLoaded"]
    ELSE [ok |-> TRUE, status |-> 200, error |-> "none"]

\* a mutant: the two clock readings are subtracted the other way round
processing_time_Swapped(start_time, now) ==
    start_time - now
\* predict: int((time.time() - start_time) * 1000), the clock counted in
\* milliseconds, which the system does not set back while a call runs
processing_time(start_time, now) ==
    now - start_time
\* PredictionResponse(**result): the five declared fields, any other key of
\* the dict ignored; a confidence outside [0, 1] fails validation
PredictionResponse(result) ==
    IF result.confidence < 0 \/ result.confidence > 100000
    THEN [raised |-> TRUE, body |-> None]
    ELSE [raised |-> FALSE,
          body |-> <<[label |-> result.label,
                      confidence |-> result.confidence,
                      language |-> result.language,
                      fraud_risk_explanation |-> result.fraud_risk_explanation,
                      processing_time_ms |-> result.processing_time_ms]>>]

\* predict_voice, the "detail" entry of the error body: str(e) for the two
\* anticipated exceptions, f"Unexpected error: {str(e)}" for any other
handler_detail(e, m) ==
    IF e \in {"ValidationError", "AudioDownloadError"} THEN m
    ELSE <<"Unexpected error: ">> \o m

(***************************************************************************)
(* FeatureExtractor: the layout of the vector extract_features returns,    *)
(* each value by the (descriptor, row, statistic) it is, and the names     *)
(* get_feature_names returns.                                              *)
(***************************************************************************)
\* FeatureExtractor.__init__, the default n_mfcc
n_mfcc ==
    13
\* the rows of the matrix librosa.feature.chroma_stft returns (its default n_chroma)
n_chroma ==
    12
\* _compute_statistics on a matrix of the given rows (each of at least one
\* frame): for every row in turn its mean, std, min and max
compute_statistics(descriptor, rows) ==
    [i \in 1..(4 * rows) |->
        [descriptor |-> descriptor,
         row |-> (i - 1) \div 4,
         stat |-> <<"mean", "std", "min", "max">>[((i - 1) % 4) + 1]]]
\* extract_features: features.extend(...) once per descriptor, in the code's order
extract_features ==
    compute_statistics("mfcc", n_mfcc)
        \o compute_statistics("spectral_centroid", 1)
        \o compute_statistics("spectral_rolloff", 1)
        \o compute_statistics("zero_crossing_rate", 1)
        \o compute_statistics("spectral_bandwidth", 1)
        \o compute_statistics("chroma", n_chroma)
\* the four names names.extend adds for one prefix, the prefix being
\* <<descriptor, i>> (f'mfcc_{i}') or <<descriptor>> (f'{feature_name}')
stat_names(prefix) ==
    <<prefix \o <<"mean">>, prefix \o <<"std">>, prefix \o <<"min">>, prefix \o <<"max">>>>
\* the names of "for i in range(n)" over one indexed descriptor
RECURSIVE indexed_names(_, _, _)
indexed_names(descriptor, i, n) ==
    IF i >= n THEN <<>>
    ELSE stat_names(<<descriptor, i>>) \o indexed_names(descriptor, i + 1, n)
\* a mutant: the two first spectral descriptors are named in the other order
get_feature_names_RolloffFirst ==
    indexed_names("mfcc", 0, n_mfcc)
        \o stat_names(<<"spectral_rolloff">>)
        \o stat_names(<<"spectral_centroid">>)
        \o stat_names(<<"zero_crossing_rate">>)
        \o stat_names(<<"spectral_bandwidth">>)
        \o indexed_names("chroma", 0, 12)
\* get_feature_names
get_feature_names ==
    indexed_names("mfcc", 0, n_mfcc)
        \o stat_names(<<"spectral_centroid">>)
        \o stat_names(<<"spectral_rolloff">>)
        \o stat_names(<<"zero_crossing_rate">>)
        \o stat_names(<<"spectral_bandwidth">>)
        \o indexed_names("chroma", 0, 12)

(***************************************************************************)
(* VoiceClassifier.  A fitted forest is named by the training data it was  *)
(* fitted on (fitting is seeded); the artifact joblib writes is the pickle *)
(* of the model_data dict: its items, in insertion order.                  *)
(***************************************************************************)
\* VoiceClassifier.__init__
new_classifier ==
    [model |-> <<>>, feature_names |-> None,
     class_names |-> class_names, trained |-> FALSE]
\* the feature vectors predict is given
FeatureVectors ==
    {1, 2, 3}
\* the training sets train is given
TrainingSets ==
    {1, 2}
\* the probabilities of ProbGrid, in a row
ProbRow ==
    <<0, 50000, 50001, 64996, 65000, 84994, 84995, 84996, 85000, 85004, 85005, 100000>>
\* model.predict_proba(features)[0][1]: what the forest fitted on a training
\* set (model is <<that set>>) reports for a feature vector
predict_proba(model, features) ==
    ProbRow[((5 * model[1] + 3 * features) % Len(ProbRow)) + 1]
\* a mutant: an instance is usable as soon as it holds feature names
VoiceClassifier_predict_ByNames(self, features) ==
    IF self.feature_names = None
    THEN [raised |-> "RuntimeError", label |-> "None", confidence |-> 0]
    ELSE [raised |-> "none", label |-> "HUMAN", confidence |-> 100000]
\* VoiceClassifier.predict
VoiceClassifier_predict(self, features) ==
    IF ~self.trained
    THEN [raised |-> "RuntimeError", label |-> "None", confidence |-> 0]
    ELSE LET pAI == predict_proba(self.model, features)
             probabilities == <<100000 - pAI, pAI>>
             prediction == IF probabilities[2] > probabilities[1] THEN 1 ELSE 0
         IN  [raised |-> "none",
              label |-> self.class_names[prediction + 1],
              confidence |-> probabilities[prediction + 1]]
\* a mutant: predict grows the instance's class list
predict_self_Grows(self) ==
    [self EXCEPT !.class_names = Append(@, "UNKNOWN")]
\* the instance after VoiceClassifier.predict: the method assigns to no attribute
predict_self(self) ==
    self
\* the value pickled under a key of an artifact
item(model_data, key) ==
    model_data[CHOOSE i \in DOMAIN model_data : model_data[i][1] = key][2]
\* save_model, the dict it hands to joblib.dump
save_model(self) ==
    <<<<"model", self.model>>,
      <<"feature_names", self.feature_names>>,
      <<"class_names", self.class_names>>,
      <<"trained", self.trained>>>>
\* a mutant: the loaded instance keeps the constructor's feature_names
load_model_NoNames(model_data) ==
    [new_classifier EXCEPT !.model = item(model_data, "model"),
                           !.class_names = item(model_data, "class_names"),
                           !.trained = item(model_data, "trained")]
\* load_model, from the dict joblib.load returns
load_model(model_data) ==
    [new_classifier EXCEPT !.model = item(model_data, "model"),
                           !.feature_names = item(model_data, "feature_names"),
                           !.class_names = item(model_data, "class_names"),
                           !.trained = item(model_data, "trained")]
\* the artifact train.py leaves at MODEL_PATH: save_model's, of a classifier
\* trained with the extractor's feature names
TrainedArtifact ==
    save_model([model |-> <<1>>, feature_names |-> <<get_feature_names>>,
                class_names |-> class_names, trained |-> TRUE])
\* the artifacts lifespan can find at MODEL_PATH: that one, and one pickled
\* by other means whose trained entry is false
StartupArtifacts ==
    {TrainedArtifact,
     <<<<"model", <<>>>>, <<"feature_names", None>>,
       <<"class_names", class_names>>, <<"trained", FALSE>>>>}
\* InferenceEngine.get_model_info
get_model_info(self) ==
    [model_type |-> "RandomForestClassifier",
     n_features |-> IF self.feature_names # None THEN <<Len(self.feature_names[1])>> ELSE None,
     classes |-> self.class_names,
     trained |-> self.trained]

(***************************************************************************)
(* State.                                                                  *)
(***************************************************************************)
VARIABLES
    phase,             \* "boot" before lifespan's startup, "serving" after it, "exited" after sys.exit
    inference_engine,  \* app.api.inference_engine: None, or the engine, by the classifier it holds
    files,             \* the scratch directory: the paths of the temp files that exist
    clock,             \* what time.time() reads
    calls,             \* calls started so far
    call,              \* the call in progress: the locals of the handler, predict and download_audio
    instances,         \* the VoiceClassifier objects a training or loading program holds, by the name bound to each
    artifacts,         \* the model artifacts on disk, by path
    ret,               \* how the last VoiceClassifier operation ended
    threads,           \* the locals of the predict calls that run side by side on one engine
    sizes,             \* the blocks in the temp file at each path that side-by-side calls use
    scratch            \* AudioProcessor.temp_dir, what tempfile.gettempdir() answered
\* the state of the request path
pipeline_vars ==
    <<phase, inference_engine, files, clock, calls, call>>
\* the state of a program that trains, saves and loads classifiers
classifier_vars ==
    <<instances, artifacts, ret>>
\* the state only side-by-side predict calls use
thread_vars ==
    <<threads, sizes, scratch>>
vars ==
    <<phase, inference_engine, files, clock, calls, call, instances, artifacts, ret, threads, sizes, scratch>>

\* the URLs a caller other than the handler passes to InferenceEngine.predict
DirectURLs ==
    {U_empty, U_noscheme, U_ftp, U_file, U_pub, U_upper}
Tokens ==
    {"key", "wrong", "none"}
\* the texts of the exceptions librosa raises inside extract_features
InternalTexts ==
    {"Audio buffer is not finite everywhere", "Input signal length is too small"}
\* the locals of a call that has not started
NoCall ==
    [pc |-> "idle", entry |-> "none", token |-> "none", audio_url |-> <<>>,
     dl_path |-> None, total_size |-> 0, pp_path |-> None, temp_path |-> None,
     exc |-> "none", msg |-> <<>>, n_samples |-> 0,
     raw |-> None, label |-> "None", result |-> None, response |-> None,
     predict_calls |-> 0, net |-> 0, created |-> FALSE, dl_ok |-> FALSE,
     rm_failed |-> FALSE, over_cap |-> FALSE, wrote |-> 0,
     body_ran |-> FALSE, model_ready |-> FALSE,
     detail |-> <<>>, steps |-> <<>>, decoded |-> FALSE, n_features |-> 0,
     info |-> None, start_time |-> 0, body |-> None, audio |-> None, sr |-> 0]

\* the names a training or loading program binds classifiers to
Slots ==
    {"a", "b"}
\* the paths it saves to and loads from
ModelPaths ==
    {"model/voice_model.pkl"}
\* the feature_names train is given: none, or a list
FeatureNameChoices ==
    {None, <<<<"f0", "f1">>>>}
\* before any VoiceClassifier operation
NoRet ==
    [op |-> "none", slot |-> "none", path |-> "none", raised |-> "none",
     label |-> "None", confidence |-> 0, wrote |-> FALSE,
     completed |-> FALSE, fitted |-> FALSE, loaded |-> FALSE,
     file |-> None, waveform |-> None]
\* the URLs side-by-side calls are given
ThreadURLs ==
    {U_hindi, U_english}
\* the temp paths side-by-side calls can name
ThreadPaths ==
    {make_temp_path(u, t) : u \in ThreadURLs, t \in 0..MaxClock}
Threads ==
    {1, 2}
\* the locals of a predict call that has not started
NoThread ==
    [pc |-> "idle", audio_url |-> <<>>, dl_path |-> None, pp_path |-> None, temp_path |-> None,
     offset |-> 0, stale |-> FALSE,
     audio |-> 0, exc |-> "none", result |-> None]

\* the state before a training program or side-by-side calls have done anything
InitAside ==
    /\ instances = [s \in Slots |-> None]
    /\ artifacts = [p \in ModelPaths |-> None]
    /\ ret = NoRet
    /\ threads = [i \in Threads |-> NoThread]
    /\ sizes = [p \in ThreadPaths |-> 0]

Init ==
    /\ phase = "boot"
    /\ inference_engine = None
    /\ files = {}
    /\ clock = 0
    /\ calls = 0
    /\ call = NoCall
    /\ InitAside
    /\ scratch = temp_dir

\* whether a trained model is loaded: the engine is set and its classifier's trained flag is true
ModelReady ==
    inference_engine # None /\ inference_engine[1].trained
\* a mutant: a failed download or decode is tried again from the start
Raise_Retry(c, e, m) ==
    [c EXCEPT !.exc = e, !.msg = m, !.pc = "dl_scheme"]
\* an exception leaves download_audio or load_and_preprocess for process_audio_from_url
Raise(c, e, m) ==
    [c EXCEPT !.exc = e, !.msg = m, !.pc = "pp_except"]
\* the exception e, raised inside download_audio's try block, leaves it
RaiseInDownload(c, e, m) ==
    Raise(c, download_except(e), download_except_msg(e, m))
\* a file is at the path, and the os.remove the environment answers with ok fails on it
RemoveFails(path, ok) ==
    path # None /\ exists(files, path[1]) /\ ~ok

(***************************************************************************)
(* main.lifespan: the model artifact is missing or fails to load and the   *)
(* process exits, or the engine is built from the artifact, whose trained  *)
(* flag load_model copies.                                                 *)
(***************************************************************************)
Startup ==
    /\ phase = "boot"
    /\ call.pc \in {"idle", "done"}
    /\ \/ /\ phase' = "exited"
          /\ UNCHANGED inference_engine
       \/ /\ phase' = "serving"
          /\ \E model_data \in StartupArtifacts : inference_engine' = <<load_model(model_data)>>
    /\ UNCHANGED <<files, clock, calls, call>>
    /\ UNCHANGED <<classifier_vars, thread_vars>>

\* a request reaches POST /predict; the router serves with or without lifespan having run
Request ==
    /\ phase # "exited"
    /\ call.pc \in {"idle", "done"}
    /\ calls < MaxCalls
    /\ calls' = calls + 1
    /\ clock' \in {clock, IF clock < MaxClock THEN clock + 1 ELSE clock}
    /\ \E tk \in Tokens, u \in URLs :
          call' = [NoCall EXCEPT !.pc = "auth", !.entry = "api", !.token = tk, !.audio_url = u,
                                 !.model_ready = ModelReady]
    /\ UNCHANGED <<phase, inference_engine, files>>
    /\ UNCHANGED <<classifier_vars, thread_vars>>

\* a request reaches GET /health: health_check answers 200 with or without a model
HealthCheck ==
    /\ phase # "exited"
    /\ call.pc \in {"idle", "done"}
    /\ calls < MaxCalls
    /\ calls' = calls + 1
    /\ LET model_loaded == inference_engine # None
       IN  call' = [NoCall EXCEPT !.pc = "done", !.entry = "health",
                                  !.response = <<[status |-> 200, error |-> "none"]>>,
                                  !.detail = <<IF model_loaded THEN "healthy" ELSE "degraded">>,
                                  !.model_ready = ModelReady]
    /\ UNCHANGED <<phase, inference_engine, files, clock>>
    /\ UNCHANGED <<classifier_vars, thread_vars>>

\* a request reaches GET /model/info
ModelInfoRequest ==
    /\ phase # "exited"
    /\ call.pc \in {"idle", "done"}
    /\ calls < MaxCalls
    /\ calls' = calls + 1
    /\ \E tk \in Tokens :
          call' = [NoCall EXCEPT !.pc = "auth", !.entry = "model_info", !.token = tk,
                                 !.model_ready = ModelReady]
    /\ UNCHANGED <<phase, inference_engine, files, clock>>
    /\ UNCHANGED <<classifier_vars, thread_vars>>

\* model_info's body: engine.get_model_info()
ModelInfo ==
    /\ call.pc = "model_info"
    /\ call' = [call EXCEPT !.pc = "done",
                            !.response = <<[status |-> 200, error |-> "none"]>>,
                            !.info = <<get_model_info(inference_engine[1])>>]
    /\ UNCHANGED <<phase, inference_engine, files, clock, calls>>
    /\ UNCHANGED <<classifier_vars, thread_vars>>

\* InferenceEngine.predict called on the loaded engine by a caller other than the handler
DirectCall ==
    /\ phase = "serving"
    /\ call.pc \in {"idle", "done"}
    /\ calls < MaxCalls
    /\ calls' = calls + 1
    /\ clock' \in {clock, IF clock < MaxClock THEN clock + 1 ELSE clock}
    /\ \E u \in DirectURLs :
          call' = [NoCall EXCEPT !.pc = "dl_scheme", !.entry = "direct", !.audio_url = u,
                                 !.predict_calls = 1, !.model_ready = ModelReady,
                                 !.start_time = clock']
    /\ UNCHANGED <<phase, inference_engine, files>>
    /\ UNCHANGED <<classifier_vars, thread_vars>>

\* api_key_auth.verify_api_key; a request without credentials is refused by HTTPBearer itself
VerifyApiKey ==
    /\ call.pc = "auth"
    /\ \/ /\ call.token = "none"
          /\ \E s \in {401, 403} :
                call' = [call EXCEPT !.pc = "done", !.response = <<[status |-> s, error |-> "HTTPException"]>>]
       \/ /\ call.token = "wrong"
          /\ call' = [call EXCEPT !.pc = "done", !.response = <<[status |-> 401, error |-> "HTTPException"]>>]
       \/ /\ call.token = "key"
          /\ call' = [call EXCEPT !.pc = "engine_dep"]
    /\ UNCHANGED <<phase, inference_engine, files, clock, calls>>
    /\ UNCHANGED <<classifier_vars, thread_vars>>

GetInferenceEngine ==
    /\ call.pc = "engine_dep"
    /\ LET r == engine_dependency(inference_engine)
       IN  call' = IF r.ok
                   THEN [call EXCEPT !.pc = IF call.entry = "model_info" THEN "model_info" ELSE "validate",
                                     !.body_ran = TRUE]
                   ELSE [call EXCEPT !.pc = "done",
                                     !.response = <<[status |-> r.status, error |-> r.error]>>]
    /\ UNCHANGED <<phase, inference_engine, files, clock, calls>>
    /\ UNCHANGED <<classifier_vars, thread_vars>>

\* predict_voice: validate_url, then engine.predict
ValidateUrl ==
    /\ call.pc = "validate"
    /\ LET r == validate_url(call.audio_url)
       IN  call' = IF r = "ok"
                   THEN [call EXCEPT !.pc = "dl_scheme", !.predict_calls = @ + 1,
                                     !.start_time = clock]
                   ELSE [call EXCEPT !.pc = "handler_exc", !.exc = "ValidationError", !.msg = <<r>>]
    /\ UNCHANGED <<phase, inference_engine, files, clock, calls>>
    /\ UNCHANGED <<classifier_vars, thread_vars>>

(***************************************************************************)
(* AudioProcessor.download_audio.                                          *)
(***************************************************************************)
\* the scheme test, before the try block; then the temp file's name
DownloadSchemeCheck ==
    /\ call.pc = "dl_scheme"
    /\ LET c == [call EXCEPT !.steps = Append(@, "download")]
       IN  call' = IF download_scheme_ok(call.audio_url)
                   THEN [c EXCEPT !.pc = "dl_get",
                                  !.dl_path = <<make_temp_path(call.audio_url, clock)>>]
                   ELSE Raise(c, "AudioDownloadError", <<"Invalid URL: must use http or https protocol">>)
    /\ UNCHANGED <<phase, inference_engine, files, clock, calls>>
    /\ UNCHANGED <<classifier_vars, thread_vars>>

\* requests.get and raise_for_status: a RequestException, or a response to stream
DownloadGet ==
    /\ call.pc = "dl_get"
    /\ \/ call' = [call EXCEPT !.pc = "dl_open", !.net = @ + 1]
       \/ \E e \in {"ConnectionError", "Timeout", "HTTPError"} :
             call' = [RaiseInDownload(call, e, "request") EXCEPT !.net = @ + 1]
    /\ UNCHANGED <<phase, inference_engine, files, clock, calls>>
    /\ UNCHANGED <<classifier_vars, thread_vars>>

\* open(temp_path, 'wb'): the file is created empty, or an OSError
DownloadOpen ==
    /\ call.pc = "dl_open"
    /\ \/ /\ files' = opened(files, call.dl_path[1])
          /\ call' = [call EXCEPT !.pc = "dl_stream", !.created = TRUE]
       \/ /\ call' = RaiseInDownload(call, "OSError", "open")
          /\ UNCHANGED files
    /\ UNCHANGED <<phase, inference_engine, clock, calls>>
    /\ UNCHANGED <<classifier_vars, thread_vars>>

\* one turn of the loop over iter_content: a chunk of k blocks arrives
DownloadChunk ==
    /\ call.pc = "dl_stream"
    /\ \E k \in 0..MaxChunk, ok \in BOOLEAN :
          IF k = 0
          THEN \* "if chunk:" skips an empty chunk
               UNCHANGED <<call, files>>
          ELSE LET total == call.total_size + k
               IN  IF chunk_over_cap(total, k)
                   THEN \* os.remove(temp_path), then AudioDownloadError; a failed
                        \* os.remove is an OSError instead
                        /\ files' = IF ok THEN removed(files, call.dl_path[1]) ELSE files
                        /\ call' = [(IF RemoveFails(call.dl_path, ok)
                                     THEN RaiseInDownload(call, "OSError", "remove")
                                     ELSE RaiseInDownload(call, "AudioDownloadError", "File too large"))
                                       EXCEPT !.total_size = total, !.over_cap = TRUE,
                                              !.rm_failed = @ \/ RemoveFails(call.dl_path, ok)]
                   ELSE \* f.write(chunk), which can fail
                        \/ /\ call' = [call EXCEPT !.total_size = total, !.wrote = @ + k]
                           /\ UNCHANGED files
                        \/ /\ call' = [RaiseInDownload(call, "OSError", "write")
                                          EXCEPT !.total_size = total]
                           /\ UNCHANGED files
    /\ UNCHANGED <<phase, inference_engine, clock, calls>>
    /\ UNCHANGED <<classifier_vars, thread_vars>>

\* the connection breaks or times out while the body is streamed
DownloadStreamError ==
    /\ call.pc = "dl_stream"
    /\ \E e \in {"ChunkedEncodingError", "ConnectionError", "Timeout"} :
          call' = RaiseInDownload(call, e, "stream")
    /\ UNCHANGED <<phase, inference_engine, files, clock, calls>>
    /\ UNCHANGED <<classifier_vars, thread_vars>>

\* the body ends: an empty download is deleted and refused, any other returns its path
DownloadEnd ==
    /\ call.pc = "dl_stream"
    /\ IF call.total_size = 0
       THEN \E ok \in BOOLEAN :
               /\ files' = IF ok THEN removed(files, call.dl_path[1]) ELSE files
               /\ call' = [(IF RemoveFails(call.dl_path, ok)
                            THEN RaiseInDownload(call, "OSError", "remove")
                            ELSE RaiseInDownload(call, "AudioDownloadError", "Downloaded file is empty"))
                              EXCEPT !.rm_failed = @ \/ RemoveFails(call.dl_path, ok)]
       ELSE /\ call' = [call EXCEPT !.pc = "decode", !.pp_path = call.dl_path, !.dl_ok = TRUE]
            /\ UNCHANGED files
    /\ UNCHANGED <<phase, inference_engine, clock, calls>>
    /\ UNCHANGED <<classifier_vars, thread_vars>>

(***************************************************************************)
(* AudioProcessor.load_and_preprocess and process_audio_from_url.          *)
(***************************************************************************)
\* librosa.load fails, or decodes n samples at the target rate, which are
\* validated and normalized; the except clause converts whatever was raised
LoadAndPreprocess ==
    /\ call.pc = "decode"
    /\ LET c == [call EXCEPT !.steps = Append(@, "decode")]
       IN  \/ \E e \in {"NoBackendError", "EOFError"} :
                 call' = Raise(c, load_except(e), <<"Failed to load audio: ", e>>)
           \/ \E n \in SampleCounts, audio \in Waveforms :
                 LET v == validate_audio(n, TARGET_SAMPLE_RATE)
                     d == [c EXCEPT !.decoded = TRUE, !.n_samples = n]
                 IN  call' = IF v = "ok"
                             THEN [d EXCEPT !.pc = "extract",
                                            !.audio = <<normalize_audio(audio)>>,
                                            !.sr = TARGET_SAMPLE_RATE,
                                            !.temp_path = call.pp_path,
                                            !.total_size = 0, !.wrote = 0]
                             ELSE Raise(d, load_except("AudioDownloadError"),
                                        <<"Failed to load audio: ", v>>)
    /\ UNCHANGED <<phase, inference_engine, files, clock, calls>>
    /\ UNCHANGED <<classifier_vars, thread_vars>>

\* process_audio_from_url's except clause: clean up when the download had returned, re-raise
ProcessExcept ==
    /\ call.pc = "pp_except"
    /\ \E ok \in BOOLEAN :
          /\ files' = process_except(files, call.pp_path, ok)
          /\ call' = [call EXCEPT !.pc = "finally",
                                  !.rm_failed = @ \/ RemoveFails(call.pp_path, ok)]
    /\ UNCHANGED <<phase, inference_engine, clock, calls>>
    /\ UNCHANGED <<classifier_vars, thread_vars>>

(***************************************************************************)
(* InferenceEngine.predict after the audio is loaded.                      *)
(***************************************************************************)
\* FeatureExtractor.extract_features returns the vector, or librosa raises;
\* the waveform is not read again after this step
ExtractFeatures ==
    /\ call.pc = "extract"
    /\ LET c == [call EXCEPT !.steps = Append(@, "extract"), !.audio = None, !.sr = 0]
       IN  \/ call' = [c EXCEPT !.pc = "classify", !.n_features = Len(extract_features)]
           \/ \E m \in InternalTexts :
                 call' = [c EXCEPT !.pc = "finally", !.exc = "ValueError", !.msg = <<m>>]
    /\ UNCHANGED <<phase, inference_engine, files, clock, calls>>
    /\ UNCHANGED <<classifier_vars, thread_vars>>

\* VoiceClassifier.predict, then the safety override
Classify ==
    /\ call.pc = "classify"
    /\ LET c == [call EXCEPT !.steps = Append(@, "classify")]
       IN  IF ~inference_engine[1].trained
           THEN call' = [c EXCEPT !.pc = "finally", !.exc = "RuntimeError",
                                  !.msg = <<"Model not trained. Load a trained model first.">>]
           ELSE \E pAI \in ProbGrid :
                   LET r == classifier_predict(pAI)
                   IN  call' = [c EXCEPT !.pc = "explain", !.raw = <<r>>,
                                         !.label = safety_override(r.label, r.confidence)]
    /\ inference_engine' = <<predict_self(inference_engine[1])>>
    /\ UNCHANGED <<phase, files, clock, calls>>
    /\ UNCHANGED <<classifier_vars, thread_vars>>

\* detect_language, _generate_explanation, the second reading of the clock
\* and the result dict
Explain ==
    /\ call.pc = "explain"
    /\ clock' \in {clock, IF clock < MaxClock THEN clock + 1 ELSE clock}
    /\ LET confidence == call.raw[1].confidence
       IN  call' = [call EXCEPT
                       !.pc = "finally",
                       !.steps = @ \o <<"explain", "result">>,
                       !.result = <<[label |-> call.label,
                                     confidence |-> result_confidence(call.raw[1].label, call.label, confidence),
                                     language |-> detect_language(path_text(call.temp_path[1])),
                                     fraud_risk_explanation |-> generate_explanation(call.label, confidence),
                                     processing_time_ms |-> processing_time(call.start_time, clock'),
                                     status |-> "success"]>>]
    /\ UNCHANGED <<phase, inference_engine, files, calls>>
    /\ UNCHANGED <<classifier_vars, thread_vars>>

\* predict's finally clause, then the return or the exception reaches the caller
PredictFinally ==
    /\ call.pc = "finally"
    /\ \E ok \in BOOLEAN :
          /\ files' = predict_finally(files, call.temp_path, ok)
          /\ call' = [call EXCEPT
                         !.pc = IF call.entry = "direct" THEN "done"
                                ELSE IF call.exc = "none" THEN "handler_ok" ELSE "handler_exc",
                         !.rm_failed = @ \/ RemoveFails(call.temp_path, ok)]
    /\ UNCHANGED <<phase, inference_engine, clock, calls>>
    /\ UNCHANGED <<classifier_vars, thread_vars>>

(***************************************************************************)
(* predict_voice: the response.                                            *)
(***************************************************************************)
\* return PredictionResponse(**result), inside the handler's try block
HandlerReturn ==
    /\ call.pc = "handler_ok"
    /\ LET r == PredictionResponse(call.result[1])
       IN  call' = IF r.raised
                   THEN [call EXCEPT !.pc = "handler_exc", !.exc = "pydantic.ValidationError",
                                     !.msg = <<"1 validation error for PredictionResponse">>]
                   ELSE [call EXCEPT !.pc = "done", !.body = r.body,
                                     !.response = <<[status |-> 200, error |-> "none"]>>]
    /\ UNCHANGED <<phase, inference_engine, files, clock, calls>>
    /\ UNCHANGED <<classifier_vars, thread_vars>>

HandlerExcept ==
    /\ call.pc = "handler_exc"
    /\ call' = [call EXCEPT !.pc = "done", !.response = <<handler_response(call.exc)>>,
                            !.detail = handler_detail(call.exc, call.msg)]
    /\ UNCHANGED <<phase, inference_engine, files, clock, calls>>
    /\ UNCHANGED <<classifier_vars, thread_vars>>

Next ==
    \/ Startup
    \/ Request
    \/ HealthCheck
    \/ ModelInfoRequest
    \/ ModelInfo
    \/ DirectCall
    \/ VerifyApiKey
    \/ GetInferenceEngine
    \/ ValidateUrl
    \/ DownloadSchemeCheck
    \/ DownloadGet
    \/ DownloadOpen
    \/ DownloadChunk
    \/ DownloadStreamError
    \/ DownloadEnd
    \/ LoadAndPreprocess
    \/ ProcessExcept
    \/ ExtractFeatures
    \/ Classify
    \/ Explain
    \/ PredictFinally
    \/ HandlerReturn
    \/ HandlerExcept

Spec ==
    Init /\ [][Next]_vars

(***************************************************************************)
(* A program that constructs, trains, saves, loads and queries             *)
(* VoiceClassifier objects (src/train.py is one).  Beside each object the  *)
(* state keeps what was done to it: whether a train call returned          *)
(* (completed), whether one got as far as fitting (fitted), whether        *)
(* load_model made it (loaded); beside each artifact, the object saved.    *)
(***************************************************************************)
\* VoiceClassifier(): a name is bound to a new instance
Construct ==
    /\ \E s \in Slots :
          instances' = [instances EXCEPT ![s] =
                           <<[self |-> new_classifier, completed |-> FALSE,
                              fitted |-> FALSE, loaded |-> FALSE]>>]
    /\ ret' = [NoRet EXCEPT !.op = "construct"]
    /\ UNCHANGED <<artifacts, pipeline_vars, thread_vars>>

\* VoiceClassifier.train: feature_names is set; the split or the cross
\* validation raises, or the forest is fitted and trained set; then the
\* evaluation and the report raise, or the metrics are returned
Train ==
    /\ \E s \in Slots, d \in TrainingSets, names \in FeatureNameChoices :
          /\ instances[s] # None
          /\ LET o == instances[s][1]
                 named == [o.self EXCEPT !.feature_names = names]
                 fit == [named EXCEPT !.model = <<d>>, !.trained = TRUE]
                 r == [NoRet EXCEPT !.op = "train", !.slot = s]
             IN  \/ /\ instances' = [instances EXCEPT ![s] = <<[o EXCEPT !.self = named]>>]
                    /\ ret' = [r EXCEPT !.raised = "ValueError"]
                 \/ /\ instances' = [instances EXCEPT ![s] =
                                         <<[o EXCEPT !.self = fit, !.fitted = TRUE]>>]
                    /\ ret' = [r EXCEPT !.raised = "ValueError"]
                 \/ /\ instances' = [instances EXCEPT ![s] =
                                         <<[o EXCEPT !.self = fit, !.fitted = TRUE,
                                                     !.completed = TRUE]>>]
                    /\ ret' = r
    /\ UNCHANGED <<artifacts, pipeline_vars, thread_vars>>

\* train.load_dataset: extract_batch_features loads one file of the dataset
\* and hands its waveform to extract_features
ExtractBatchFeatures ==
    /\ \E file \in AudioFiles :
          ret' = [NoRet EXCEPT !.op = "extract_batch", !.file = <<file>>,
                               !.waveform = extract_batch_features(file).audio]
    /\ UNCHANGED <<instances, artifacts, pipeline_vars, thread_vars>>

\* VoiceClassifier.save_model: refused on an untrained instance; else the
\* artifact is written, or joblib.dump fails and nothing is
SaveModel ==
    /\ \E s \in Slots, p \in ModelPaths :
          /\ instances[s] # None
          /\ LET o == instances[s][1]
                 r == [NoRet EXCEPT !.op = "save_model", !.slot = s, !.path = p,
                                    !.completed = o.completed, !.fitted = o.fitted,
                                    !.loaded = o.loaded]
             IN  IF ~o.self.trained
                 THEN /\ ret' = [r EXCEPT !.raised = "RuntimeError"]
                      /\ UNCHANGED artifacts
                 ELSE \/ /\ artifacts' = [artifacts EXCEPT ![p] =
                                             <<[model_data |-> save_model(o.self), saver |-> o.self]>>]
                         /\ ret' = [r EXCEPT !.wrote = TRUE]
                      \/ /\ ret' = [r EXCEPT !.raised = "OSError"]
                         /\ UNCHANGED artifacts
    /\ UNCHANGED <<instances, pipeline_vars, thread_vars>>

\* VoiceClassifier.load_model: FileNotFoundError, or a name is bound to the
\* instance built from the artifact
LoadModel ==
    /\ \E s \in Slots, p \in ModelPaths :
          LET r == [NoRet EXCEPT !.op = "load_model", !.slot = s, !.path = p]
          IN  IF artifacts[p] = None
              THEN /\ ret' = [r EXCEPT !.raised = "FileNotFoundError"]
                   /\ UNCHANGED instances
              ELSE /\ instances' = [instances EXCEPT ![s] =
                                       <<[self |-> load_model(artifacts[p][1].model_data),
                                          completed |-> FALSE, fitted |-> FALSE,
                                          loaded |-> TRUE]>>]
                   /\ ret' = r
    /\ UNCHANGED <<artifacts, pipeline_vars, thread_vars>>

\* VoiceClassifier.predict on a feature vector
Predict ==
    /\ \E s \in Slots, features \in FeatureVectors :
          /\ instances[s] # None
          /\ LET o == instances[s][1]
                 r == VoiceClassifier_predict(o.self, features)
             IN  /\ ret' = [NoRet EXCEPT !.op = "predict", !.slot = s, !.raised = r.raised,
                                         !.label = r.label, !.confidence = r.confidence,
                                         !.completed = o.completed, !.fitted = o.fitted,
                                         !.loaded = o.loaded]
                 /\ instances' = [instances EXCEPT ![s] = <<[o EXCEPT !.self = predict_self(o.self)]>>]
    /\ UNCHANGED <<artifacts, pipeline_vars, thread_vars>>

NextClassifier ==
    \/ Construct
    \/ ExtractBatchFeatures
    \/ Train
    \/ SaveModel
    \/ LoadModel
    \/ Predict

SpecClassifier ==
    Init /\ [][NextClassifier]_vars

(***************************************************************************)
(* InferenceEngine.predict called side by side on one loaded engine (from  *)
(* threads, or from worker processes that share the scratch directory).    *)
(* Each call runs the steps of predict one at a time, in any interleaving  *)
(* with the other.  Every remote resource returns the same RemoteBlocks    *)
(* blocks each time it is fetched; the file at a path holds the first      *)
(* sizes[path] of them.                                                    *)
(***************************************************************************)
\* the engine is loaded from the trained artifact and serving
InitConcurrent ==
    /\ phase = "serving"
    /\ inference_engine = <<load_model(TrainedArtifact)>>
    /\ files = {}
    /\ clock = 0
    /\ calls = 0
    /\ call = NoCall
    /\ InitAside
    /\ scratch \in TempDirs

\* the calls after a cleanup of the path (None, or <<the path>>) that did
\* or did not unlink a file (gone): a call still writing through a handle
\* on an unlinked file writes to no path
Unlinked(ths, path, gone) ==
    [j \in Threads |->
        IF gone /\ ths[j].pc = "dl_stream" /\ ths[j].dl_path = path
        THEN [ths[j] EXCEPT !.stale = TRUE]
        ELSE ths[j]]

\* time.time() moves on
Tick ==
    /\ clock < MaxClock
    /\ clock' = clock + 1
    /\ UNCHANGED <<phase, inference_engine, files, calls, call, classifier_vars, thread_vars>>

\* a caller starts predict
ThreadStart ==
    /\ \E i \in Threads, u \in ThreadURLs :
          /\ threads[i].pc = "idle"
          /\ threads' = [threads EXCEPT ![i] = [NoThread EXCEPT !.pc = "dl_scheme", !.audio_url = u]]
    /\ UNCHANGED <<pipeline_vars, classifier_vars, sizes, scratch>>

\* download_audio: the scheme test, then the temp file's name from the URL and the clock
ThreadName ==
    /\ \E i \in Threads :
          /\ threads[i].pc = "dl_scheme"
          /\ threads' = [threads EXCEPT ![i] =
                            IF download_scheme_ok(threads[i].audio_url)
                            THEN [@ EXCEPT !.pc = "dl_get",
                                           !.dl_path = <<make_temp_path(threads[i].audio_url, clock)>>]
                            ELSE [@ EXCEPT !.pc = "pp_except", !.exc = "AudioDownloadError"]]
    /\ UNCHANGED <<pipeline_vars, classifier_vars, sizes, scratch>>

\* requests.get: a response to stream, or a RequestException
ThreadGet ==
    /\ \E i \in Threads :
          /\ threads[i].pc = "dl_get"
          /\ \/ threads' = [threads EXCEPT ![i].pc = "dl_open"]
             \/ threads' = [threads EXCEPT ![i].pc = "pp_except",
                                           ![i].exc = download_except("ConnectionError")]
    /\ UNCHANGED <<pipeline_vars, classifier_vars, sizes, scratch>>

\* open(temp_path, 'wb'): the file at the path is created, or emptied if there is one
ThreadOpen ==
    /\ \E i \in Threads :
          /\ threads[i].pc = "dl_open"
          /\ files' = opened(files, threads[i].dl_path[1])
          /\ sizes' = [sizes EXCEPT ![threads[i].dl_path[1]] = 0]
          /\ threads' = [threads EXCEPT ![i].pc = "dl_stream", ![i].offset = 0, ![i].stale = FALSE]
    /\ UNCHANGED <<phase, inference_engine, clock, calls, call, classifier_vars, scratch>>

\* one turn of the loop: a chunk of one block is written at the handle's offset
ThreadChunk ==
    /\ \E i \in Threads :
          LET t == threads[i]
              p == t.dl_path[1]
          IN  /\ t.pc = "dl_stream"
              /\ t.offset < RemoteBlocks
              /\ ~chunk_over_cap(t.offset + 1, 1)
              /\ sizes' = IF t.stale \/ sizes[p] > t.offset THEN sizes
                          ELSE [sizes EXCEPT ![p] = t.offset + 1]
              /\ threads' = [threads EXCEPT ![i].offset = t.offset + 1]
    /\ UNCHANGED <<pipeline_vars, classifier_vars, scratch>>

\* the body has ended: download_audio returns the path
ThreadEnd ==
    /\ \E i \in Threads :
          /\ threads[i].pc = "dl_stream"
          /\ threads[i].offset = RemoteBlocks
          /\ threads' = [threads EXCEPT ![i].pc = "decode", ![i].pp_path = threads[i].dl_path]
    /\ UNCHANGED <<pipeline_vars, classifier_vars, sizes, scratch>>

\* load_and_preprocess: librosa.load reads what is at the path now; no file,
\* or an empty one, fails; a file cut short fails or decodes to less audio
ThreadDecode ==
    /\ \E i \in Threads :
          LET t == threads[i]
              p == t.pp_path[1]
              fail == [t EXCEPT !.pc = "pp_except", !.exc = load_except("Exception")]
              read == [t EXCEPT !.pc = "infer", !.audio = sizes[p], !.temp_path = t.pp_path]
          IN  /\ t.pc = "decode"
              /\ IF ~exists(files, p) \/ sizes[p] = 0
                 THEN threads' = [threads EXCEPT ![i] = fail]
                 ELSE IF sizes[p] < RemoteBlocks
                 THEN \/ threads' = [threads EXCEPT ![i] = fail]
                      \/ threads' = [threads EXCEPT ![i] = read]
                 ELSE threads' = [threads EXCEPT ![i] = read]
    /\ UNCHANGED <<pipeline_vars, classifier_vars, sizes, scratch>>

\* process_audio_from_url's except clause: the file is cleaned up when
\* download_audio had returned its path
ThreadProcessExcept ==
    /\ \E i \in Threads, ok \in BOOLEAN :
          LET t == threads[i]
              after == process_except(files, t.pp_path, ok)
          IN  /\ t.pc = "pp_except"
              /\ files' = after
              /\ sizes' = IF after # files THEN [sizes EXCEPT ![t.dl_path[1]] = 0] ELSE sizes
              /\ threads' = [Unlinked(threads, t.pp_path, after # files) EXCEPT ![i].pc = "finally"]
    /\ UNCHANGED <<phase, inference_engine, clock, calls, call, classifier_vars, scratch>>

\* extract_features and VoiceClassifier.predict on the decoded audio (the
\* vector is named by the audio it was extracted from), the safety override
\* and the result
ThreadInfer ==
    /\ \E i \in Threads :
          LET t == threads[i]
              r == VoiceClassifier_predict(inference_engine[1], t.audio)
              label == safety_override(r.label, r.confidence)
          IN  /\ t.pc = "infer"
              /\ threads' = [threads EXCEPT
                                ![i].pc = "finally",
                                ![i].result = <<[label |-> label,
                                                 confidence |-> result_confidence(r.label, label, r.confidence),
                                                 language |-> detect_language(temp_file_text(scratch, t.temp_path[1]))]>>]
    /\ UNCHANGED <<pipeline_vars, classifier_vars, sizes, scratch>>

\* predict's finally clause
ThreadFinally ==
    /\ \E i \in Threads, ok \in BOOLEAN :
          LET t == threads[i]
              after == predict_finally(files, t.temp_path, ok)
          IN  /\ t.pc = "finally"
              /\ files' = after
              /\ sizes' = IF after # files THEN [sizes EXCEPT ![t.temp_path[1]] = 0] ELSE sizes
              /\ threads' = [Unlinked(threads, t.temp_path, after # files) EXCEPT ![i].pc = "done"]
    /\ UNCHANGED <<phase, inference_engine, clock, calls, call, classifier_vars, scratch>>

NextConcurrent ==
    \/ Tick
    \/ ThreadStart
    \/ ThreadName
    \/ ThreadGet
    \/ ThreadOpen
    \/ ThreadChunk
    \/ ThreadEnd
    \/ ThreadDecode
    \/ ThreadProcessExcept
    \/ ThreadInfer
    \/ ThreadFinally

SpecConcurrent ==
    InitConcurrent /\ [][NextConcurrent]_vars

(***************************************************************************)
(* Properties.                                                             *)
(***************************************************************************)
\* predict has returned or raised: control is back in the handler or the caller
PredictExited ==
    call.predict_calls > 0 /\ call.pc \in {"handler_ok", "handler_exc", "done"}
\* the response of a finished request
Responded ==
    call.entry = "api" /\ call.pc = "done"

\* C1: once predict has returned or raised after a download that succeeded,
\* no file exists at the temp path, whichever later step failed or none,
\* provided no delete in the call failed.
C1_TempFileGoneAtExit ==
    (PredictExited /\ call.dl_ok /\ ~call.rm_failed)
        => ~exists(files, call.dl_path[1])
\* a call whose classification step raised, after its download had succeeded, has returned
C1_Witness ==
    /\ PredictExited
    /\ call.dl_ok
    /\ call.exc = "RuntimeError"
    /\ ~call.rm_failed
    /\ ~exists(files, call.dl_path[1])

\* C2: when download_audio has failed with AudioDownloadError after creating
\* its temp file, no file is left at the path it generated once the call is
\* over (no delete having failed).
C2_NoResidualFile ==
    (PredictExited /\ call.created /\ ~call.dl_ok /\ call.exc = "AudioDownloadError"
                   /\ ~call.rm_failed)
        => ~exists(files, call.dl_path[1])

\* C3: in every result of predict, a raw AI_GENERATED below 0.85 is reported
\* HUMAN, a raw AI_GENERATED at 0.85 or above stays AI_GENERATED, and a raw
\* HUMAN stays HUMAN.
C3_SafetyOverride ==
    call.result # None =>
        LET raw == call.raw[1]
            res == call.result[1]
        IN  /\ (raw.label = "AI_GENERATED" /\ raw.confidence < 85000) => res.label = "HUMAN"
            /\ (raw.label = "AI_GENERATED" /\ raw.confidence >= 85000) => res.label = "AI_GENERATED"
            /\ raw.label = "HUMAN" => res.label = "HUMAN"
\* a result whose label the override flipped, just under the threshold
C3_Witness ==
    /\ call.result # None
    /\ call.raw[1] = [label |-> "AI_GENERATED", confidence |-> 84996]
    /\ call.result[1].label = "HUMAN"

\* C4, as claimed: the confidence in the result is the classifier's raw
\* confidence, not adjusted in any way.
C4_ConfidenceUnadjusted ==
    call.result # None => call.result[1].confidence = call.raw[1].confidence
\* C4, amended: the confidence in the result is the raw confidence of the raw
\* class rounded to four decimals (a multiple of 0.0001 at most 0.00005 away
\* from it), whether or not the label was flipped.
C4_ConfidenceRoundedOnly ==
    call.result # None =>
        LET c == call.raw[1].confidence
            r == call.result[1].confidence
        IN  /\ r % 10 = 0
            /\ r - c <= 5
            /\ c - r <= 5
\* a flipped label whose reported confidence is the raw one rounded up to 0.85
C4_Witness ==
    /\ call.result # None
    /\ call.raw[1] = [label |-> "AI_GENERATED", confidence |-> 84996]
    /\ call.result[1].label = "HUMAN"
    /\ call.result[1].confidence = 85000

HasHttpScheme(url) ==
    urlparse(url).scheme \in {<<"h", "t", "t", "p">>, <<"h", "t", "t", "p", "s">>}

\* the URLs of the corpus with an http or https scheme
HttpSchemeURLs ==
    {u \in URLs : HasHttpScheme(u)}

\* C6: for a URL whose scheme is not http or https, download_audio raises
\* AudioDownloadError with no network request issued and no temp file named
\* or created.
C6_SchemeCheckedFirst ==
    (call.predict_calls > 0 /\ call.pc # "dl_scheme" /\ call.audio_url \notin HttpSchemeURLs)
        => /\ call.exc = "AudioDownloadError"
           /\ call.net = 0
           /\ ~call.created
           /\ call.dl_path = None
\* predict, called with an ftp URL, has raised
C6_Witness ==
    /\ call.audio_url = U_ftp
    /\ call.predict_calls > 0
    /\ call.pc = "done"
    /\ call.exc = "AudioDownloadError"
    /\ call.net = 0

\* the URLs of the corpus validate_url rejects
RejectedURLs ==
    {u \in URLs : validate_url(u) # "ok"}

\* C7: for a URL validate_url rejects, the handler never invokes predict (no
\* fetch, no temp file), and its body answers 400 ValidationError.
C7_RejectedUrlStopsAtHandler ==
    (call.entry = "api" /\ call.audio_url \in RejectedURLs)
        => /\ call.predict_calls = 0
           /\ call.net = 0
           /\ ~call.created
           /\ call.pc \notin {"dl_scheme", "dl_get", "dl_open", "dl_stream", "decode", "pp_except",
                              "extract", "classify", "explain", "finally", "handler_ok"}
           /\ (call.body_ran /\ call.pc = "done")
                 => call.response = <<[status |-> 400, error |-> "ValidationError"]>>
\* the handler has answered "not-a-valid-url"
C7_Witness ==
    /\ Responded
    /\ call.audio_url = U_noscheme
    /\ call.body_ran
    /\ call.response = <<[status |-> 400, error |-> "ValidationError"]>>
    /\ call.predict_calls = 0

\* the host of a URL: its netloc without user information and port
HostOf(url) ==
    LET netloc == urlparse(url).netloc
        at == IF "@" \in Range(netloc)
              THEN CHOOSE i \in 1..Len(netloc) :
                       netloc[i] = "@" /\ \A j \in (i + 1)..Len(netloc) : netloc[j] # "@"
              ELSE 0
        hostport == SubSeq(netloc, at + 1, Len(netloc))
        colon == FindFrom(hostport, {":"}, 1)
    IN  IF colon = 0 THEN hostport ELSE SubSeq(hostport, 1, colon - 1)
\* the value of a string of decimal digits, -1 for any other string
RECURSIVE DecimalValue(_)
DecimalValue(s) ==
    IF s = <<>> \/ \E i \in 1..Len(s) : s[i] \notin Digits THEN -1
    ELSE LET d == CHOOSE v \in 0..9 : HexDigits[v + 1] = s[Len(s)]
         IN  IF Len(s) = 1 THEN d ELSE 10 * DecimalValue(SubSeq(s, 1, Len(s) - 1)) + d
\* the parts of s between dots
RECURSIVE SplitDots(_)
SplitDots(s) ==
    LET d == FindFrom(s, {"."}, 1)
    IN  IF d = 0 THEN <<s>>
        ELSE <<SubSeq(s, 1, d - 1)>> \o SplitDots(SubSeq(s, d + 1, Len(s)))
\* the host is localhost, or an IPv4 address that is loopback (127.0.0.0/8),
\* unspecified (0.0.0.0) or private (10.0.0.0/8, 172.16.0.0/12, 192.168.0.0/16)
IsLoopbackOrPrivateHost(host) ==
    \/ Lower(host) = <<"l", "o", "c", "a", "l", "h", "o", "s", "t">>
    \/ LET parts == SplitDots(host)
           o(i) == DecimalValue(parts[i])
       IN  /\ Len(parts) = 4
           /\ \A i \in 1..4 : o(i) \in 0..255
           /\ \/ o(1) = 127
              \/ o(1) = 10
              \/ o(1) = 172 /\ o(2) \in 16..31
              \/ o(1) = 192 /\ o(2) = 168
              \/ \A i \in 1..4 : o(i) = 0

\* the http/https URLs of the corpus with such a host
PrivateHostURLs ==
    {u \in HttpSchemeURLs : IsLoopbackOrPrivateHost(HostOf(u))}

\* C8: an http/https URL whose host is a loopback or private-network address
\* is rejected by validate_url and so never reaches download_audio through
\* the handler.
C8_PrivateHostsRejected ==
    (call.entry = "api" /\ call.body_ran /\ call.pc # "validate"
                        /\ call.audio_url \in PrivateHostURLs)
        => /\ call.exc = "ValidationError"
           /\ call.predict_calls = 0

\* C9: every failure inside acquisition or decoding leaves
\* process_audio_from_url as AudioDownloadError, and the handler answers it
\* 400 AudioDownloadError.
C9_AcquisitionFailuresAreClientErrors ==
    /\ call.pc = "pp_except" => call.exc = "AudioDownloadError"
    /\ (call.predict_calls > 0 /\ call.pc \in {"finally", "handler_exc", "done"}
                               /\ call.temp_path = None)
          => call.exc = "AudioDownloadError"
    /\ (Responded /\ call.predict_calls > 0 /\ call.temp_path = None)
          => call.response = <<[status |-> 400, error |-> "AudioDownloadError"]>>
\* the handler has answered a request whose download broke off while streaming
C9_Witness ==
    /\ Responded
    /\ call.created
    /\ call.msg = <<"Download failed: ", "stream">>
    /\ call.response = <<[status |-> 400, error |-> "AudioDownloadError"]>>

\* C10: an authenticated request that reaches the classifier of an engine
\* whose trained flag is false is answered 503, like one handled with no
\* engine set.
C10_NoModelIsServiceUnavailable ==
    (Responded /\ call.token = "key" /\ ~call.model_ready
               /\ (call.body_ran => call.exc = "RuntimeError"))
        => call.response[1].status = 503

\* the internal exceptions the /predict handler has no clause for
Unanticipated ==
    {"ValueError", "RuntimeError"}

\* C11: the body answering an unanticipated exception does not depend on the
\* exception's text: it is the body the same exception with any other text
\* would have been answered with.
C11_InternalErrorBodyIndependentOfText ==
    (Responded /\ call.exc \in Unanticipated)
        => \A m \in InternalTexts :
              /\ call.response = <<handler_response(call.exc)>>
              /\ call.detail = handler_detail(call.exc, <<m>>)

\* the steps of InferenceEngine.predict, in order
PipelineSteps ==
    <<"download", "decode", "extract", "classify", "explain", "result">>
\* the positions of a call at which a step of predict can still start
StepPositions ==
    {"dl_scheme", "dl_get", "dl_open", "dl_stream", "decode", "extract", "classify", "explain"}

\* C12: the steps a predict call has started are a beginning of download,
\* decode, extract, classify, explain, result, each once and in that order;
\* a step starts only while no error has been raised; once an error is
\* raised the call starts no further step, keeps the error and returns no
\* result.
C12_StepsInOrderNoRetry ==
    /\ [](/\ Len(call.steps) <= Len(PipelineSteps)
          /\ call.steps = SubSeq(PipelineSteps, 1, Len(call.steps))
          /\ call.exc # "none" => (call.pc \notin StepPositions /\ call.result = None)
          /\ call.result # None => call.steps = PipelineSteps)
    /\ [][(call.exc # "none" /\ calls' = calls)
             => (call'.steps = call.steps /\ call'.exc = call.exc /\ call'.result = None)]_vars
\* a call whose decoding failed has left predict, the later steps never started
C12_Witness ==
    /\ PredictExited
    /\ call.steps = <<"download", "decode">>
    /\ call.exc = "AudioDownloadError"
    /\ call.result = None

\* C13: load_and_preprocess fails, with AudioDownloadError, exactly when
\* decoding fails or the decoded sample count is 0 or under 8000; for a count
\* between 1 and 7999 the message is the one holding "Audio too short"; a
\* count of 8000 or more is accepted.
C13_ShortAudioRejected ==
    (call.pp_path # None /\ call.pc # "decode")
        => /\ (call.temp_path = None)
                 <=> (~call.decoded \/ call.n_samples = 0 \/ call.n_samples < 8000)
           /\ call.temp_path = None => call.exc = "AudioDownloadError"
           /\ (call.decoded /\ call.n_samples > 0 /\ call.n_samples < 8000)
                 => call.msg = <<"Failed to load audio: ",
                                 "Audio too short: minimum 0.5 seconds required">>
           /\ (call.decoded /\ call.n_samples >= 8000) => call.temp_path = call.pp_path
\* a clip of 3200 samples has been refused as too short
C13_Witness ==
    /\ call.decoded
    /\ call.n_samples = 3200
    /\ call.exc = "AudioDownloadError"
    /\ call.msg = <<"Failed to load audio: ", "Audio too short: minimum 0.5 seconds required">>
    /\ call.temp_path = None

\* the name of a value of the vector: f'{descriptor}_{row}_{stat}' for the
\* MFCC and chroma rows, f'{descriptor}_{stat}' for the one-row descriptors
NameOf(v) ==
    IF v.descriptor \in {"mfcc", "chroma"}
    THEN <<v.descriptor, v.row, v.stat>>
    ELSE <<v.descriptor, v.stat>>
\* the descriptor, row and statistic the claim puts at the 0-based position i
ClaimedAt(i) ==
    LET r == i \div 4
        stat == <<"mean", "std", "min", "max">>[(i % 4) + 1]
    IN  IF r < 13 THEN [descriptor |-> "mfcc", row |-> r, stat |-> stat]
        ELSE IF r = 13 THEN [descriptor |-> "spectral_centroid", row |-> 0, stat |-> stat]
        ELSE IF r = 14 THEN [descriptor |-> "spectral_rolloff", row |-> 0, stat |-> stat]
        ELSE IF r = 15 THEN [descriptor |-> "zero_crossing_rate", row |-> 0, stat |-> stat]
        ELSE IF r = 16 THEN [descriptor |-> "spectral_bandwidth", row |-> 0, stat |-> stat]
        ELSE [descriptor |-> "chroma", row |-> r - 17, stat |-> stat]
\* the vector has 116 values, laid out as claimed, and every name names the
\* value at its position
NamesAligned ==
    /\ Len(extract_features) = 116
    /\ Len(get_feature_names) = 116
    /\ \A i \in 0..115 :
          /\ extract_features[i + 1] = ClaimedAt(i)
          /\ get_feature_names[i + 1] = NameOf(extract_features[i + 1])

\* C14: the vector extract_features has returned to predict has exactly 116
\* values, 13 MFCC rows, centroid, rolloff, zero-crossing rate, bandwidth
\* and 12 chroma rows with mean, std, min, max each, and get_feature_names
\* names every position's value.
C14_FeatureVectorMatchesNames ==
    call.n_features # 0 => (call.n_features = 116 /\ NamesAligned)
\* extract_features has returned its vector to predict
C14_Witness ==
    /\ call.pc = "classify"
    /\ call.n_features = 116
    /\ call.steps = <<"download", "decode", "extract">>

ClaimedTier(confidence) ==
    IF confidence > 85000 THEN "HIGH"
    ELSE IF confidence >= 65000 THEN "MODERATE"
    ELSE "LOW"
\* the tier the code's comparisons give: high above 0.85, moderate above
\* 0.65 up to 0.85, low at 0.65 and under
StrictTier(confidence) ==
    IF confidence > 85000 THEN "HIGH"
    ELSE IF confidence > 65000 THEN "MODERATE"
    ELSE "LOW"
\* the template for a final label and a tier
Template(label, tier) ==
    IF label = "AI_GENERATED"
    THEN (IF tier = "HIGH" THEN "AI_HIGH" ELSE IF tier = "MODERATE" THEN "AI_MODERATE" ELSE "AI_LOW")
    ELSE (IF tier = "HIGH" THEN "HUMAN_HIGH" ELSE IF tier = "MODERATE" THEN "HUMAN_MODERATE" ELSE "HUMAN_LOW")

\* C20, as claimed: the explanation of a result is the template of its final
\* label and of the tier of the confidence, moderate being 0.65 to 0.85
\* inclusive and low under 0.65.
C20_ExplanationTiersInclusive ==
    call.result # None =>
        call.result[1].fraud_risk_explanation
            = Template(call.result[1].label, ClaimedTier(call.raw[1].confidence))
\* C20, amended: the explanation of a result is the template of its final
\* label (the label after the safety override) and of the tier of the
\* confidence: high above 0.85, moderate above 0.65 and up to 0.85, low at
\* 0.65 and under.
C20_ExplanationTiersStrict ==
    call.result # None =>
        call.result[1].fraud_risk_explanation
            = Template(call.result[1].label, StrictTier(call.raw[1].confidence))
\* a result at exactly 0.65 whose label the override flipped: the low-confidence human template
C20_Witness ==
    /\ call.result # None
    /\ call.raw[1] = [label |-> "AI_GENERATED", confidence |-> 65000]
    /\ call.result[1].label = "HUMAN"
    /\ call.result[1].fraud_risk_explanation = "HUMAN_LOW"

\* C15, as claimed: predict raises the not-trained RuntimeError exactly on
\* an instance on which no train call has completed and which load_model
\* did not make, and then returns no label; save_model on such an instance
\* raises and writes nothing.
C15_NotTrainedUnlessTrainCompleted ==
    /\ ret.op = "predict" =>
          /\ (ret.raised = "RuntimeError") <=> ~(ret.completed \/ ret.loaded)
          /\ ret.raised = "RuntimeError" => ret.label = "None"
    /\ (ret.op = "save_model" /\ ~(ret.completed \/ ret.loaded))
          => (ret.raised = "RuntimeError" /\ ~ret.wrote)
\* C15, amended: predict raises the not-trained RuntimeError exactly on an
\* instance on which no train call has got through fitting the forest
\* (whether or not that call then returned) and which load_model did not
\* make, and then returns no label; save_model on such an instance raises
\* and writes nothing.
C15_NotTrainedUnlessFitted ==
    /\ ret.op = "predict" =>
          /\ (ret.raised = "RuntimeError") <=> ~(ret.fitted \/ ret.loaded)
          /\ ret.raised = "RuntimeError" => ret.label = "None"
    /\ (ret.op = "save_model" /\ ~(ret.fitted \/ ret.loaded))
          => (ret.raised = "RuntimeError" /\ ~ret.wrote)
\* predict has raised on an instance whose only train call failed before fitting
C15_Witness ==
    /\ ret.op = "predict"
    /\ ret.raised = "RuntimeError"
    /\ instances[ret.slot][1].self.feature_names # None
    /\ ~ret.fitted
    /\ ~ret.loaded

\* C16: the instance load_model has just built from an artifact has the
\* model, feature_names, class_names and trained flag of the instance
\* save_model wrote it from, and predicts as that one on every vector.
C16_SaveLoadRoundTrip ==
    (ret.op = "load_model" /\ ret.raised = "none") =>
        LET loaded == instances[ret.slot][1].self
            saver == artifacts[ret.path][1].saver
        IN  /\ loaded.model = saver.model
            /\ loaded.feature_names = saver.feature_names
            /\ loaded.class_names = saver.class_names
            /\ loaded.trained = saver.trained
            /\ \A features \in FeatureVectors :
                  VoiceClassifier_predict(loaded, features) = VoiceClassifier_predict(saver, features)
\* an instance trained with feature names was saved and loaded back
C16_Witness ==
    /\ ret.op = "load_model"
    /\ ret.raised = "none"
    /\ instances[ret.slot][1].self.trained
    /\ instances[ret.slot][1].self.feature_names # None
    /\ instances[ret.slot][1].self.model = <<2>>

\* a call is between naming its temp file and leaving predict
InFlight(t) ==
    t.dl_path # None /\ t.pc \notin {"idle", "done"}

\* C17: two predict calls in progress at the same time have different temp
\* paths, whatever their URLs and the clock values they read.
C17_OverlappingCallsUseDistinctPaths ==
    \A i, j \in Threads :
        (i # j /\ InFlight(threads[i]) /\ InFlight(threads[j]))
            => threads[i].dl_path # threads[j].dl_path

\* C19: two predict calls on the engine that were given the same URL, the
\* resource returning the same bytes to both, and that both produced a
\* result, produced the same label and the same confidence.
C19_SameUrlSameResult ==
    \A i, j \in Threads :
        (/\ threads[i].result # None
         /\ threads[j].result # None
         /\ threads[i].audio_url = threads[j].audio_url)
            => /\ threads[i].result[1].label = threads[j].result[1].label
               /\ threads[i].result[1].confidence = threads[j].result[1].confidence
\* the six texts _generate_explanation can return, by label and tier
ExplanationTemplates ==
    {"AI_HIGH", "AI_MODERATE", "AI_LOW", "HUMAN_HIGH", "HUMAN_MODERATE", "HUMAN_LOW"}

\* C21: every result predict returns has a label in {HUMAN, AI_GENERATED}, a
\* confidence in [0, 1], a language in {Hindi, English, Unknown}, one of the
\* six explanation templates and a processing_time_ms that is a non-negative
\* integer; the body of a successful /predict response has exactly these
\* five fields, with the values of the result.
C21_ResultShape ==
    /\ call.result # None =>
          LET r == call.result[1]
          IN  /\ r.label \in {"HUMAN", "AI_GENERATED"}
              /\ r.confidence >= 0 /\ r.confidence <= 100000
              /\ r.language \in {"Hindi", "English", "Unknown"}
              /\ r.fraud_risk_explanation \in ExplanationTemplates
              /\ r.processing_time_ms \in Nat
    /\ (Responded /\ call.response[1].status = 200) =>
          /\ call.body # None
          /\ DOMAIN call.body[1] =
                {"label", "confidence", "language", "fraud_risk_explanation", "processing_time_ms"}
          /\ \A k \in DOMAIN call.body[1] : call.body[1][k] = call.result[1][k]
\* a successful /predict response for a call during which the clock advanced
C21_Witness ==
    /\ Responded
    /\ call.response[1].status = 200
    /\ call.result[1].processing_time_ms = 1
    /\ call.result[1].label = "AI_GENERATED"
    /\ "status" \in DOMAIN call.result[1]

\* C22: a request to /predict or /model/info with no Bearer token or with a
\* wrong one is answered 401 and the handler body never runs (no URL check,
\* no engine lookup result, no call of predict), whatever else is wrong with
\* the request or the service; /health answers 200 without any key.
C22_UnauthenticatedIs401 ==
    /\ (call.entry \in {"api", "model_info"} /\ call.token \in {"none", "wrong"}) =>
          /\ ~call.body_ran
          /\ call.predict_calls = 0
          /\ call.pc = "done" => call.response[1].status = 401
    /\ (call.entry = "health" /\ call.pc = "done") => call.response[1].status = 200

\* C23: a temp-file deletion that fails never changes what predict does: the
\* call returns the result it computed, or the exception of the step that
\* failed leaves it (a download over the size cap leaves as the "File too
\* large" AudioDownloadError whether or not the partial file could be
\* deleted); and no other failure is swallowed: a call in which a step raised
\* returns no result.
C23_DeletionFailureNeverSurfaces ==
    PredictExited =>
        /\ call.over_cap =>
              /\ call.exc = "AudioDownloadError"
              /\ call.msg = download_except_msg("AudioDownloadError", "File too large")
        /\ call.msg # download_except_msg("OSError", "remove")
        /\ (call.result # None) <=> (call.exc = "none")

\* the sample x lies in [-1, 1]
InUnitRange(x) ==
    /\ x.den > 0
    /\ x.num <= x.den
    /\ -x.num <= x.den
\* the sample x is 0
IsZero(x) ==
    x.num = 0

\* C24: every waveform load_and_preprocess returns has sample rate 16000,
\* between 8000 and 960000 samples, and every sample in [-1, 1]; a signal
\* that is not all zero has peak absolute value exactly 1, and an all-zero
\* signal is returned as decoded, with no division by zero.
C24_WaveformNormalized ==
    call.audio # None =>
        LET audio == call.audio[1]
        IN  /\ call.sr = 16000
            /\ call.n_samples >= 8000 /\ call.n_samples <= 960000
            /\ \A i \in DOMAIN audio : InUnitRange(audio[i])
            /\ (\E i \in DOMAIN audio : ~IsZero(audio[i])) =>
                  \E i \in DOMAIN audio : audio[i].num = audio[i].den \/ -audio[i].num = audio[i].den
            /\ (\A i \in DOMAIN audio : IsZero(audio[i])) => audio \in Waveforms
\* a returned waveform whose peak, -1, is a negative sample
C24_Witness ==
    /\ call.audio # None
    /\ call.n_samples = 8000
    /\ \E i \in DOMAIN call.audio[1] : -call.audio[1][i].num = call.audio[1][i].den
    /\ \E i \in DOMAIN call.audio[1] : call.audio[1][i].num > 0

\* the markers of each language, and whether a path has one, in any letter case
HindiMarkers ==
    {<<"h", "i", "n", "d", "i">>, <<"h", "i", "_">>, <<"_", "h", "i">>, <<"h", "i", "n">>}
EnglishMarkers ==
    {<<"e", "n", "g", "l", "i", "s", "h">>, <<"e", "n", "_">>, <<"_", "e", "n">>, <<"e", "n", "g">>}
HasMarker(path, markers) ==
    \E m \in markers : Contains(Lower(path), m)
\* the language of a path as the markers decide it
LanguageOf(path) ==
    IF HasMarker(path, HindiMarkers) THEN "Hindi"
    ELSE IF HasMarker(path, EnglishMarkers) THEN "English"
    ELSE "Unknown"

\* C25: detect_language answers for every path, ignoring letter case: Hindi
\* exactly when the path contains hindi, hi_, _hi or hin; English exactly
\* when it contains none of those and one of english, en_, _en or eng;
\* Unknown otherwise.
C25_LanguageFromMarkers ==
    \A i \in Threads :
        threads[i].result # None =>
            LET path == temp_file_text(scratch, threads[i].temp_path[1])
                language == threads[i].result[1].language
                hi == HasMarker(path, HindiMarkers)
                en == HasMarker(path, EnglishMarkers)
            IN  /\ language \in {"Hindi", "English", "Unknown"}
                /\ (language = "Hindi") <=> hi
                /\ (language = "English") <=> (~hi /\ en)
                /\ (language = "Unknown") <=> (~hi /\ ~en)
\* a path with an English marker in capitals and a Hindi one is Hindi
C25_Witness ==
    \E i \in Threads :
        /\ threads[i].result # None
        /\ scratch = T_both
        /\ HasMarker(temp_file_text(scratch, threads[i].temp_path[1]), EnglishMarkers)
        /\ threads[i].result[1].language = "Hindi"

\* C27: the language in a result depends on the scratch directory alone, not
\* on the URL's text nor on the audio: calls whose URLs carry different
\* language markers report the same language, and with no marker in the
\* scratch directory's path the language is Unknown.
C27_LanguageIndependentOfUrl ==
    \A i \in Threads :
        threads[i].result # None =>
            /\ threads[i].result[1].language = LanguageOf(scratch)
            /\ ~HasMarker(scratch, HindiMarkers \cup EnglishMarkers)
                  => threads[i].result[1].language = "Unknown"
            /\ \A j \in Threads :
                  threads[j].result # None
                      => threads[j].result[1].language = threads[i].result[1].language
\* two calls, one given a URL named hindi and one a URL named english, both
\* report Unknown from the default scratch directory
C27_Witness ==
    /\ scratch = temp_dir
    /\ threads[1].result # None
    /\ threads[2].result # None
    /\ threads[1].audio_url = U_hindi
    /\ threads[2].audio_url = U_english
    /\ threads[1].result[1].language = "Unknown"
    /\ threads[2].result[1].language = "Unknown"

\* C26, as claimed: in every result a label AI_GENERATED goes with a raw
\* confidence of at least 0.85, the AI low-confidence explanation is never
\* produced, and a result with label HUMAN whose raw label was AI_GENERATED
\* carries a confidence below 0.85 that is the AI class's probability, with
\* one of the HUMAN explanations.
C26_OverrideConsistent ==
    call.result # None =>
        LET r == call.result[1]
            raw == call.raw[1]
        IN  /\ r.label = "AI_GENERATED" => raw.confidence >= 85000
            /\ r.fraud_risk_explanation # "AI_LOW"
            /\ (r.label = "HUMAN" /\ raw.label = "AI_GENERATED") =>
                  /\ r.confidence < 85000
                  /\ r.confidence = raw.confidence
                  /\ r.fraud_risk_explanation \in {"HUMAN_HIGH", "HUMAN_MODERATE", "HUMAN_LOW"}
\* C26, amended: the same, except that the flipped result's confidence is
\* the AI class's probability, which is below 0.85, rounded to four
\* decimals, which is at most 0.85.
C26_OverrideConsistentRounded ==
    call.result # None =>
        LET r == call.result[1]
            raw == call.raw[1]
        IN  /\ r.label = "AI_GENERATED" => raw.confidence >= 85000
            /\ r.fraud_risk_explanation # "AI_LOW"
            /\ (r.label = "HUMAN" /\ raw.label = "AI_GENERATED") =>
                  /\ raw.confidence < 85000
                  /\ r.confidence = round4(raw.confidence)
                  /\ r.confidence <= 85000
                  /\ r.fraud_risk_explanation \in {"HUMAN_HIGH", "HUMAN_MODERATE", "HUMAN_LOW"}
\* a finished call whose AI_GENERATED label was flipped and whose result
\* carries a HUMAN explanation and the confidence 0.85
C26_Witness ==
    /\ call.pc = "done"
    /\ call.result # None
    /\ call.raw[1].label = "AI_GENERATED"
    /\ call.raw[1].confidence < 85000
    /\ call.result[1].label = "HUMAN"
    /\ call.result[1].confidence = 85000
    /\ call.result[1].fraud_risk_explanation = "HUMAN_MODERATE"

\* C28: the waveform extract_batch_features hands to extract_features for a
\* file at training time is the one load_and_preprocess returns for the
\* same file at inference time (same rate, 60 s truncation, normalization),
\* and a file inference refuses as too short is not used in training.
C28_TrainingWaveformIsInferenceWaveform ==
    ret.op = "extract_batch" =>
        LET inference == load_and_preprocess(ret.file[1])
        IN  IF inference.raised THEN ret.waveform = None
            ELSE ret.waveform = inference.audio

\* the well-formed http/https URLs of the corpus: such a scheme and a host
WellFormedURLs ==
    {u \in HttpSchemeURLs : ~urlparse(u).raises /\ HostOf(u) # <<>>}
\* those of them whose host is also the host of a URL validate_url accepts
AcceptedHostURLs ==
    {u \in WellFormedURLs : \E v \in WellFormedURLs : HostOf(v) = HostOf(u) /\ validate_url(v) = "ok"}

\* C29: for well-formed http/https URLs validate_url decides by the host
\* alone: a URL whose host is that of an accepted URL is accepted too,
\* whatever its path, query or fragment, and the handler does not answer
\* ValidationError for it.
C29_DecisionByHostOnly ==
    (/\ call.entry = "api"
     /\ call.body_ran
     /\ call.pc # "validate"
     /\ call.audio_url \in AcceptedHostURLs)
        => call.exc # "ValidationError"

\* C30: every URL validate_url accepts passes download_audio's scheme check:
\* a request that came through the handler and reached predict never ends
\* in download_audio's "Invalid URL" AudioDownloadError, whatever the letter
\* case of its scheme.
C30_AcceptedUrlPassesSchemeCheck ==
    (/\ call.entry = "api"
     /\ call.predict_calls > 0
     /\ call.pc # "dl_scheme")
        => /\ download_scheme_ok(call.audio_url)
           /\ call.msg # <<"Invalid URL: must use http or https protocol">>
====
